---- MODULE Spec2Model ----
(***************************************************************************)
(* fetch-spotify-artist-data: the batched fetch with rate-limit retry.     *)
(*                                                                         *)
(*   index.ts   (src/unnamed/part_002)  chunkRequests, prepareOutputData,  *)
(*                                      main                               *)
(*   spotify.ts (src/unnamed/part_003)  retryAfterRateLimitApplied,        *)
(*                                      SpotifyClient                      *)
(*   index.ts, earlier revision (src/unnamed/part_001): the per-element    *)
(*              operation that returns the fetched artists                 *)
(*                                                                         *)
(* Node runs one macrotask (a response arriving, a timer firing) and then  *)
(* every promise continuation it makes runnable before it takes the next   *)
(* macrotask, so one action here is one macrotask together with the        *)
(* continuations it triggers.                                              *)
(*                                                                         *)
(* Encodings.  An identifier is a positive integer; 0 is an input record   *)
(* without a Spotify id (null, missing or "").  A value that may be        *)
(* undefined is a sequence of length at most one: <<>> is undefined and    *)
(* <<v>> is v.  A string that is parsed is the sequence of its characters. *)
(***************************************************************************)
EXTENDS Integers, Sequences, FiniteSets, TLC

VARIABLES
    inputRecords,     \* main: the parsed input records (their Spotify id, or 0)
    spotifyIds,       \* main: the identifiers to fetch
    mainPc,           \* main: where main() is
    mainError,        \* main: the error main() rejects with
    client,           \* SpotifyClient.client: "unset" | "ready"
    authPc,           \* SpotifyClient.authenticate: "none" | "pending" | "ok" | "failed"
    calls,            \* per stage, the chunkRequests call
    tasks,            \* per stage, the per-element operations started so far
    spotifyIdToArtistObjectDict,
    artistIdToLatestAlbumDict,
    outputRecords,    \* main: let outputRecords
    written,          \* the output file: undefined, or the records written
    budget            \* how many more requests the upstream will fail

vars == <<inputRecords, spotifyIds, mainPc, mainError, client, authPc, calls, tasks,
          spotifyIdToArtistObjectDict, artistIdToLatestAlbumDict, outputRecords,
          written, budget>>

mainVars == <<inputRecords, spotifyIds, mainPc, mainError, outputRecords, written>>
dictVars == <<spotifyIdToArtistObjectDict, artistIdToLatestAlbumDict>>

(***************************************************************************)
(* Bounds of the model                                                     *)
(***************************************************************************)
MaxOps == 2       \* requests made directly on one client, one after the other
MaxLen == 3       \* elements of the input of one chunkRequests call
MaxConc == 2      \* concurrency ceilings tried, 1..MaxConc
MaxFaults == 2    \* requests the upstream fails during one chunkRequests call
MaxRunFaults == 1 \* requests the upstream fails during one run of main
MaxInput == 3     \* input records of one run
MaxIds == 120     \* identifiers of the artist stage taken alone

(***************************************************************************)
(* Program constants                                                       *)
(***************************************************************************)
TOO_MANY_REQUESTS == 429
MAX_RETRIES == 10
DefaultConcurrentRequests == 10
ArtistsPerRequest == 50

Stages == {"artists", "albums"}

Undefined == <<>>
Just(v) == <<v>>

Min(a, b) == IF a < b THEN a ELSE b

(***************************************************************************)
(* lodash: chunk, flatten, uniq                                            *)
(***************************************************************************)
CeilDiv(n, d) == (n + d - 1) \div d

\* A mutant of Chunk: groups hold one element more than asked.
ChunkOneTooMany(array, size) ==
    [k \in 1..CeilDiv(Len(array), size + 1) |->
        SubSeq(array, (k - 1) * (size + 1) + 1, Min(k * (size + 1), Len(array)))]

\* chunk(array, size): consecutive groups of `size`, the last one shorter.
Chunk(array, size) ==
    IF size < 1 THEN <<>>
    ELSE [k \in 1..CeilDiv(Len(array), size) |->
            SubSeq(array, (k - 1) * size + 1, Min(k * size, Len(array)))]

RECURSIVE Flatten(_)
\* flatten(array): one level.
Flatten(array) ==
    IF array = <<>> THEN <<>> ELSE Head(array) \o Flatten(Tail(array))

Includes(array, v) == \E i \in 1..Len(array) : array[i] = v

RECURSIVE BaseUniq(_, _)
BaseUniq(array, result) ==
    IF array = <<>> THEN result
    ELSE BaseUniq(Tail(array),
                  IF Includes(result, Head(array)) THEN result
                  ELSE Append(result, Head(array)))

\* A mutant of Uniq: nothing is removed.
UniqKeepsAll(array) == array

\* uniq(array): the first occurrence of each value, in order.
Uniq(array) == BaseUniq(array, <<>>)

(***************************************************************************)
(* The upstream, as the client sees it                                     *)
(***************************************************************************)
\* The catalogue the upstream answers from: identifiers 1 and 2 are artists,
\* and of the identifiers 1..3 only 1 has a release; beyond 3 every identifier
\* is an artist with a release.
IsArtist(id) == id # 3
HasRelease(id) == id = 1 \/ id > 3

ArtistObject(id) == [id |-> id, name |-> 1000 + id, popularity |-> id % 101,
                     followers |-> 10 * id]
SimplifiedAlbumObject(id) == [name |-> 2000 + id, release_date |-> 3000 + id]

\* GET artists?ids=...: one record per matched identifier, unmatched ones absent.
ArtistsOf(ids) ==
    LET matched == SelectSeq(ids, IsArtist)
    IN  [i \in 1..Len(matched) |-> ArtistObject(matched[i])]

\* GET artists/{id}/albums?limit=1: the page's items.
AlbumItemsOf(id) == IF HasRelease(id) THEN <<SimplifiedAlbumObject(id)>> ELSE <<>>

\* An error object.  stage, at and attempt say which request raised it: two
\* errors of different requests are different objects.
ErrorObject(hasResponse, status, retryAfter, message, stage, at, attempt) ==
    [hasResponse |-> hasResponse, status |-> status, retryAfter |-> retryAfter,
     message |-> message, stage |-> stage, at |-> at, attempt |-> attempt]

NoError == ErrorObject(FALSE, 0, Undefined, "", "", 0, 0)

\* The Retry-After headers the upstream sends with a 429: none, "0", "1", "x".
RetryAfterHeaders == {Undefined, Just(<<"0">>), Just(<<"1">>), Just(<<"x">>)}

\* What may come back for a request in flight.
Outcomes ==
    [kind : {"ok"}, status : {200}, retryAfter : {Undefined}]
    \cup [kind : {"http"}, status : {TOO_MANY_REQUESTS}, retryAfter : RetryAfterHeaders]
    \cup [kind : {"http"}, status : {500}, retryAfter : {Undefined}]
    \cup [kind : {"network"}, status : {0}, retryAfter : {Undefined}]

(***************************************************************************)
(* spotify.ts: retryAfterRateLimitApplied                                  *)
(***************************************************************************)
NaN == -1

Digits == <<"0", "1", "2", "3", "4", "5", "6", "7", "8", "9">>
IsDigit(c) == \E i \in 1..Len(Digits) : Digits[i] = c
DigitValue(c) == (CHOOSE i \in 1..Len(Digits) : Digits[i] = c) - 1

RECURSIVE ParseDigits(_, _)
ParseDigits(str, acc) ==
    IF str = <<>> \/ ~IsDigit(Head(str)) THEN acc
    ELSE ParseDigits(Tail(str), 10 * acc + DigitValue(Head(str)))

\* parseInt(header, 10): the leading digits, NaN when there are none or the
\* header is undefined.
ParseInt(header) ==
    IF header = Undefined \/ header[1] = <<>> \/ ~IsDigit(header[1][1]) THEN NaN
    ELSE ParseDigits(header[1], 0)

\* secondsToWait * 1000
Times1000(n) == IF n = NaN THEN NaN ELSE n * 1000

\* setTimeout(resolve, ms): Node runs a timer of NaN or of less than 1 ms after 1 ms.
SetTimeoutMs(ms) == IF ms = NaN \/ ms < 1 THEN 1 ELSE ms

\* error.response?.status
ResponseStatus(error) == IF error.hasResponse THEN Just(error.status) ELSE Undefined

\* A mutant of ShouldRethrow: one retry fewer.
RethrowOneEarly(error, previousRetries) ==
    ResponseStatus(error) # Just(TOO_MANY_REQUESTS) \/ previousRetries >= MAX_RETRIES - 1

\* The condition of the catch block: rethrow, or wait and retry.
ShouldRethrow(error, previousRetries) ==
    ResponseStatus(error) # Just(TOO_MANY_REQUESTS) \/ previousRetries >= MAX_RETRIES

RECURSIVE Answers429UpTo(_, _)
\* The 429 answers received by the first n operations of ts.
Answers429UpTo(ts, n) ==
    IF n = 0 THEN 0 ELSE ts[n].answers429 + Answers429UpTo(ts, n - 1)

\* A mutant of NextRetries: one count for the whole module, shared by every
\* operation, which a 429 answered to any of them advances.
NextRetriesShared(previousRetries) ==
    Answers429UpTo(tasks["artists"], Len(tasks["artists"]))
        + Answers429UpTo(tasks["albums"], Len(tasks["albums"]))

\* A mutant of NextRetries: the count is not passed on.
NextRetriesStuck(previousRetries) == previousRetries

\* The recursive call's second argument.
NextRetries(previousRetries) == previousRetries + 1

\* One per-element operation, from its call to its settling.
\*   value, index      the arguments of requestFn (for a direct request, its argument)
\*   pc                "inflight" | "waiting" | "fulfilled" | "rejected"
\*   previousRetries   the argument of the running retryAfterRateLimitApplied
\*   invocations       calls of innerFn;  gets: GETs sent;  delays: timers set
\*   answers429        429 answers received
\*   timerMs           the running timer's delay
\*   result, error     what the operation settled with
\*   lastError         what the latest innerFn() failed with
\*   clientAtCall      this.client when the operation was called
NewTask(stage, value, index) ==
    [stage |-> stage, value |-> value, index |-> index, pc |-> "called",
     previousRetries |-> 0, invocations |-> 0, gets |-> 0, delays |-> 0,
     answers429 |-> 0, timerMs |-> 0, result |-> Undefined, error |-> NoError,
     lastError |-> NoError, clientAtCall |-> client]

\* A mutant of Catch: the error is wrapped before it is rethrown.
CatchWraps(t, error) ==
    IF ShouldRethrow(error, t.previousRetries)
    THEN [t EXCEPT !.pc = "rejected", !.error = [error EXCEPT !.message = "wrapped"]]
    ELSE [t EXCEPT !.pc = "waiting", !.delays = @ + 1,
                   !.timerMs = SetTimeoutMs(Times1000(ParseInt(error.retryAfter)))]

\* A mutant of Catch: the promise that is awaited before the retry is never
\* resolved, no timer being set for it.
CatchNeverResumes(t, error) ==
    IF ShouldRethrow(error, t.previousRetries)
    THEN [t EXCEPT !.pc = "rejected", !.error = error]
    ELSE [t EXCEPT !.pc = "stuck", !.delays = @ + 1]

\* catch (error) { ... }: rethrow the error, or set the timer.
Catch(t, error) ==
    IF ShouldRethrow(error, t.previousRetries)
    THEN [t EXCEPT !.pc = "rejected", !.error = error]
    ELSE [t EXCEPT !.pc = "waiting", !.delays = @ + 1,
                   !.timerMs = SetTimeoutMs(Times1000(ParseInt(error.retryAfter)))]

\* A mutant of AssertClientThrows: the check is missing.
AssertClientNeverThrows == FALSE

\* assertClient(): throws unless authenticate has set this.client.
AssertClientThrows == client # "ready"

\* retryAfterRateLimitApplied(innerFn, previousRetries) up to its first await:
\* innerFn() either throws in assertClient or sends the GET.
Invoke(t, previousRetries) ==
    LET t1 == [t EXCEPT !.previousRetries = previousRetries, !.invocations = @ + 1,
                        !.timerMs = 0, !.lastError = NoError]
        e  == ErrorObject(FALSE, 0, Undefined, "Not authenticated",
                          t.stage, t.index, t1.invocations)
    IN  IF AssertClientThrows
        THEN Catch([t1 EXCEPT !.lastError = e], e)
        ELSE [t1 EXCEPT !.pc = "inflight", !.gets = @ + 1]

\* The data a client method returns for its response: getArtists returns
\* response.data.artists, getLatestAlbum returns response.data.items[0].
MethodResult(stage, value) ==
    IF stage = "artists" THEN ArtistsOf(value)
    ELSE IF AlbumItemsOf(value) = <<>> THEN Undefined ELSE Just(AlbumItemsOf(value)[1])

\* The error axios rejects with for an outcome that is not a success.
ErrorOf(t, outcome) ==
    ErrorObject(outcome.kind = "http", outcome.status, outcome.retryAfter,
                IF outcome.kind = "http" THEN "Request failed" ELSE "Network Error",
                t.stage, t.index, t.invocations)

\* The await of innerFn() settles: the client method returns, or the catch
\* block runs.  The value returned is kept in result until requestFn ends.
Settle(t, outcome) ==
    IF outcome.kind = "ok"
    THEN [t EXCEPT !.pc = "fulfilled", !.result = MethodResult(t.stage, t.value)]
    ELSE Catch([t EXCEPT !.lastError = ErrorOf(t, outcome),
                         !.answers429 = IF outcome.status = TOO_MANY_REQUESTS
                                        THEN @ + 1 ELSE @],
               ErrorOf(t, outcome))

(***************************************************************************)
(* index.ts: chunkRequests                                                 *)
(***************************************************************************)
\* The chunkRequests call of a stage.
\*   status   "unused" | "running" | "resolved" | "rejected"
\*   requestFn  which per-element operation it was given
\*   chunks, result, i   its locals;  values: the slots of the awaited Promise.all
\*   returned   flatten(result), once resolved;  error: what it rejected with
NoCall ==
    [status |-> "unused", requestFn |-> "none", inputArray |-> <<>>,
     concurrentRequests |-> 0, chunks |-> <<>>, i |-> 0, values |-> <<>>,
     result |-> <<>>, returned |-> <<>>, error |-> NoError]

NewCall(requestFn, inputArray, concurrentRequests) ==
    [NoCall EXCEPT !.status = "running", !.requestFn = requestFn,
                   !.inputArray = inputArray,
                   !.concurrentRequests = concurrentRequests,
                   !.chunks = Chunk(inputArray, concurrentRequests)]

\* A mutant of GlobalIndex: the position within the group is passed on.
GlobalIndexInGroup(i, concurrentRequests, index) == index

\* The second argument of requestFn.
GlobalIndex(i, concurrentRequests, index) == i * concurrentRequests + index

\* chunks[i].map(...): every element of group i (0-based) is called, in order.
StartGroup(stage, c) ==
    [j \in 1..Len(c.chunks[c.i + 1]) |->
        Invoke(NewTask(stage, c.chunks[c.i + 1][j],
                       GlobalIndex(c.i, c.concurrentRequests, j - 1)), 0)]

FirstRejected(ts) == ts[CHOOSE j \in 1..Len(ts) :
                          /\ ts[j].pc = "rejected"
                          /\ \A h \in 1..(j - 1) : ts[h].pc # "rejected"]

\* The for loop from its test of i: the next group is started, or the call
\* returns flatten(result).
RunLoop(stage, c, ts) ==
    IF c.i < Len(c.chunks)
    THEN LET group == StartGroup(stage, c)
         IN  IF \E j \in 1..Len(group) : group[j].pc = "rejected"
             THEN [call |-> [c EXCEPT !.status = "rejected",
                                      !.error = FirstRejected(group).error],
                   tasks |-> ts \o group]
             ELSE [call |-> [c EXCEPT !.values = [j \in 1..Len(group) |-> Undefined]],
                   tasks |-> ts \o group]
    ELSE [call |-> [c EXCEPT !.status = "resolved", !.returned = Flatten(c.result),
                             !.values = <<>>],
          tasks |-> ts]

\* A mutant of PromiseAllFulfil: values are kept in the order they arrive.
PromiseAllInArrivalOrder(values, pos, v) ==
    [values EXCEPT ![CHOOSE j \in 1..Len(values) :
                        /\ values[j] = Undefined
                        /\ \A h \in 1..(j - 1) : values[h] # Undefined] = Just(v)]

\* Promise.all: the value of the promise at position pos goes to slot pos.
PromiseAllFulfil(values, pos, v) == [values EXCEPT ![pos] = Just(v)]

\* A mutant of AfterSettle: a rejection is recorded as a value (Promise.allSettled),
\* so the loop goes on.
AfterSettleGoesOn(stage, c, ts, k) ==
    IF c.status # "running" \/ ts[k].pc \notin {"fulfilled", "rejected"}
    THEN [call |-> c, tasks |-> ts]
    ELSE LET vals == PromiseAllFulfil(c.values, k - c.i * c.concurrentRequests,
                                      ts[k].result)
         IN  IF \A j \in 1..Len(vals) : vals[j] # Undefined
             THEN RunLoop(stage,
                          [c EXCEPT !.result = Append(@, [j \in 1..Len(vals) |-> vals[j][1]]),
                                    !.i = @ + 1],
                          ts)
             ELSE [call |-> [c EXCEPT !.values = vals], tasks |-> ts]

\* A mutant of AfterSettle: the group is awaited with Promise.race, so the loop
\* goes on when the first element of the group has settled.
AfterSettleRace(stage, c, ts, k) ==
    IF c.status # "running" \/ (k - 1) \div c.concurrentRequests # c.i
    THEN [call |-> c, tasks |-> ts]
    ELSE IF ts[k].pc = "rejected"
    THEN [call |-> [c EXCEPT !.status = "rejected", !.error = ts[k].error],
          tasks |-> ts]
    ELSE IF ts[k].pc = "fulfilled"
    THEN RunLoop(stage, [c EXCEPT !.result = Append(@, <<ts[k].result>>), !.i = @ + 1], ts)
    ELSE [call |-> c, tasks |-> ts]

\* What the call does when its element at position k of ts has settled: the
\* awaited Promise.all rejects with the first rejection, and is fulfilled when
\* every element of the group is; then result.push and the next turn of the loop.
AfterSettle(stage, c, ts, k) ==
    IF c.status # "running" THEN [call |-> c, tasks |-> ts]
    ELSE IF ts[k].pc = "rejected"
    THEN [call |-> [c EXCEPT !.status = "rejected", !.error = ts[k].error],
          tasks |-> ts]
    ELSE IF ts[k].pc = "fulfilled"
    THEN LET vals == PromiseAllFulfil(c.values, k - c.i * c.concurrentRequests,
                                      ts[k].result)
         IN  IF \A j \in 1..Len(vals) : vals[j] # Undefined
             THEN RunLoop(stage,
                          [c EXCEPT !.result = Append(@, [j \in 1..Len(vals) |-> vals[j][1]]),
                                    !.i = @ + 1],
                          ts)
             ELSE [call |-> [c EXCEPT !.values = vals], tasks |-> ts]
    ELSE [call |-> c, tasks |-> ts]

(***************************************************************************)
(* index.ts: the per-element operations, prepareOutputData                 *)
(***************************************************************************)
DictPut(dict, key, v) ==
    [x \in (DOMAIN dict) \cup {key} |-> IF x = key THEN v ELSE dict[x]]

\* artistsChunk.forEach((artist) => (dict[artist.id] = artist)): every record
\* is stored under its id, a later record of the same id replacing an earlier.
DictPutArtists(dict, artists) ==
    LET at(x) == {i \in 1..Len(artists) : artists[i].id = x}
        last(x) == CHOOSE i \in at(x) : \A h \in at(x) : h <= i
    IN  [x \in (DOMAIN dict) \cup {artists[i].id : i \in 1..Len(artists)} |->
            IF at(x) # {} THEN artists[last(x)] ELSE dict[x]]

\* What requestFn is fulfilled with, given what the client method returned:
\* the two operations of main store it and return nothing; the operation of
\* the earlier main, and a direct request, return it.
RequestFnResult(requestFn, methodResult) ==
    IF requestFn \in {"storeArtists", "storeLatestAlbum"} THEN Undefined
    ELSE methodResult

ArtistDictAfter(requestFn, t) ==
    IF t.pc = "fulfilled" /\ requestFn = "storeArtists"
    THEN DictPutArtists(spotifyIdToArtistObjectDict, t.result)
    ELSE spotifyIdToArtistObjectDict

\* A mutant of AlbumDictAfter: the release of an operation that ends after its
\* chunkRequests call has rejected is dropped.
AlbumDictAfterWhileRunning(requestFn, t) ==
    IF t.pc = "fulfilled" /\ requestFn = "storeLatestAlbum"
           /\ calls["albums"].status = "running"
    THEN DictPut(artistIdToLatestAlbumDict, t.value, t.result)
    ELSE artistIdToLatestAlbumDict

AlbumDictAfter(requestFn, t) ==
    IF t.pc = "fulfilled" /\ requestFn = "storeLatestAlbum"
    THEN DictPut(artistIdToLatestAlbumDict, t.value, t.result)
    ELSE artistIdToLatestAlbumDict

\* One output record; a field that may be undefined is a sequence of length <= 1.
OutputRecord(id, artistDict, albumDict) ==
    LET spotifyId     == IF id # 0 THEN Just(id) ELSE Undefined
        spotifyArtist == IF id # 0 /\ id \in DOMAIN artistDict
                         THEN Just(artistDict[id]) ELSE Undefined
        latestAlbum   == IF id # 0 /\ id \in DOMAIN albumDict
                         THEN albumDict[id] ELSE Undefined
    IN  [spotifyId |-> spotifyId,
         artistName |-> IF spotifyArtist = Undefined THEN Undefined
                        ELSE Just(spotifyArtist[1].name),
         popularity |-> IF spotifyArtist = Undefined THEN Undefined
                        ELSE Just(spotifyArtist[1].popularity),
         followers |-> IF spotifyArtist = Undefined THEN Undefined
                       ELSE Just(spotifyArtist[1].followers),
         latestAlbumName |-> IF latestAlbum = Undefined THEN Undefined
                             ELSE Just(latestAlbum[1].name),
         latestAlbumReleaseDate |-> IF latestAlbum = Undefined THEN Undefined
                                    ELSE Just(latestAlbum[1].release_date)]

RECURSIVE CollectIds(_)
\* inputRecords.forEach: the records that carry an id, in order.
CollectIds(records) ==
    IF records = <<>> THEN <<>>
    ELSE (IF Head(records) # 0 THEN <<Head(records)>> ELSE <<>>)
         \o CollectIds(Tail(records))

\* A mutant of PrepareOutputData: one record per distinct identifier.
PrepareOutputDataPerIdentifier(records, artistDict, albumDict) ==
    LET ids == Uniq(CollectIds(records))
    IN  [r \in 1..Len(ids) |-> OutputRecord(ids[r], artistDict, albumDict)]

\* prepareOutputData: one record per input record.
PrepareOutputData(records, artistDict, albumDict) ==
    [r \in 1..Len(records) |-> OutputRecord(records[r], artistDict, albumDict)]

\* A mutant of SpotifyIdsInChunksOf50: the size is taken from the ceiling.
SpotifyIdsInChunksOfCeiling(ids) == Chunk(ids, DefaultConcurrentRequests)

\* const spotifyIdsInChunksOf50 = chunk(spotifyIds, 50)
SpotifyIdsInChunksOf50(ids) == Chunk(ids, ArtistsPerRequest)

(***************************************************************************)
(* index.ts: main, from the two chunkRequests calls to the write           *)
(***************************************************************************)
AllResolved(cs) == \A s \in Stages : cs[s].status = "resolved"
SomeRejected(cs) == \E s \in Stages : cs[s].status = "rejected"
RejectedCall(cs) == IF cs["artists"].status = "rejected" THEN cs["artists"]
                    ELSE cs["albums"]

\* main while it awaits Promise.all of the two calls, cs being the calls after
\* this step: on the first rejection the finally block writes outputRecords as
\* it is; when both are resolved prepareOutputData runs and the finally block
\* writes its records.  The dictionaries read are those after this step.
MainAwait(cs) ==
    IF mainPc # "fetching" THEN UNCHANGED mainVars
    ELSE IF SomeRejected(cs)
    THEN /\ mainError' = RejectedCall(cs).error
         /\ written' = Just(outputRecords)
         /\ mainPc' = "writing"
         /\ UNCHANGED <<inputRecords, spotifyIds, outputRecords>>
    ELSE IF AllResolved(cs)
    THEN /\ outputRecords' = PrepareOutputData(inputRecords,
                                               spotifyIdToArtistObjectDict',
                                               artistIdToLatestAlbumDict')
         /\ written' = Just(outputRecords')
         /\ mainPc' = "writing"
         /\ UNCHANGED <<inputRecords, spotifyIds, mainError>>
    ELSE UNCHANGED mainVars

\* The element at position k of a stage has taken a step to t: requestFn
\* finishes if the client method returned, then the chunkRequests call and
\* main go on as far as they can.
Advance(stage, k, t) ==
    LET requestFn == calls[stage].requestFn
        t2 == IF t.pc = "fulfilled"
              THEN [t EXCEPT !.result = RequestFnResult(requestFn, t.result)]
              ELSE t
        r  == AfterSettle(stage, calls[stage], [tasks[stage] EXCEPT ![k] = t2], k)
        cs == [calls EXCEPT ![stage] = r.call]
    IN  /\ tasks' = [tasks EXCEPT ![stage] = r.tasks]
        /\ calls' = cs
        /\ spotifyIdToArtistObjectDict' = ArtistDictAfter(requestFn, t)
        /\ artistIdToLatestAlbumDict' = AlbumDictAfter(requestFn, t)
        /\ MainAwait(cs)

(***************************************************************************)
(* Actions                                                                 *)
(***************************************************************************)
\* The upstream answers the GET of the element at position k.
Respond(stage, k, outcome) ==
    /\ k \in 1..Len(tasks[stage])
    /\ tasks[stage][k].pc = "inflight"
    /\ outcome.kind # "ok" => budget > 0
    /\ budget' = IF outcome.kind # "ok" THEN budget - 1 ELSE budget
    /\ Advance(stage, k, Settle(tasks[stage][k], outcome))
    /\ UNCHANGED <<client, authPc>>

\* The timer of a rate-limited element fires: the recursive call.
TimerFire(stage, k) ==
    /\ k \in 1..Len(tasks[stage])
    /\ tasks[stage][k].pc = "waiting"
    /\ Advance(stage, k, Invoke(tasks[stage][k],
                                NextRetries(tasks[stage][k].previousRetries)))
    /\ UNCHANGED <<client, authPc, budget>>

\* main up to its await of authenticate: the identifiers are collected and
\* deduplicated, the client is made and the token is asked for.
MainStart ==
    /\ mainPc = "start"
    /\ spotifyIds' = Uniq(CollectIds(inputRecords))
    /\ authPc' = "pending"
    /\ mainPc' = "authenticating"
    /\ UNCHANGED <<inputRecords, mainError, client, calls, tasks, dictVars,
                   outputRecords, written, budget>>

\* authenticate is called on a client nobody else drives.
Authenticate ==
    /\ mainPc = "none"
    /\ authPc \in {"none", "failed"}
    /\ authPc' = "pending"
    /\ UNCHANGED <<mainVars, client, calls, tasks, dictVars, budget>>

\* The token arrives: this.client is set.  A main that awaits it makes the two
\* chunkRequests calls, each of which starts its first group.
AuthOk ==
    /\ authPc = "pending"
    /\ authPc' = "ok"
    /\ client' = "ready"
    /\ UNCHANGED <<inputRecords, spotifyIds, mainError, dictVars, budget>>
    /\ IF mainPc = "authenticating"
       THEN LET a == RunLoop("artists",
                             NewCall("storeArtists",
                                     SpotifyIdsInChunksOf50(spotifyIds),
                                     DefaultConcurrentRequests), <<>>)'
                b == RunLoop("albums",
                             NewCall("storeLatestAlbum", spotifyIds,
                                     DefaultConcurrentRequests), <<>>)'
                cs == [artists |-> a.call, albums |-> b.call]
            IN  /\ calls' = cs
                /\ tasks' = [artists |-> a.tasks, albums |-> b.tasks]
                /\ IF AllResolved(cs)
                   THEN /\ outputRecords' = PrepareOutputData(inputRecords,
                                                spotifyIdToArtistObjectDict,
                                                artistIdToLatestAlbumDict)
                        /\ written' = Just(outputRecords')
                        /\ mainPc' = "writing"
                   ELSE /\ mainPc' = "fetching"
                        /\ UNCHANGED <<outputRecords, written>>
       ELSE UNCHANGED <<mainPc, outputRecords, written, calls, tasks>>

\* The token request fails: authenticate rejects, and so does a main that
\* awaits it, before its try block.
AuthFail ==
    /\ authPc = "pending"
    /\ authPc' = "failed"
    /\ IF mainPc = "authenticating"
       THEN /\ mainPc' = "failed"
            /\ mainError' = ErrorObject(TRUE, 400, Undefined, "Request failed",
                                        "token", 0, 1)
            /\ UNCHANGED <<inputRecords, spotifyIds, outputRecords, written>>
       ELSE UNCHANGED mainVars
    /\ UNCHANGED <<client, calls, tasks, dictVars, budget>>

\* The output file is written: main ends.
FileWritten ==
    /\ mainPc = "writing"
    /\ mainPc' = IF mainError = NoError THEN "done" ELSE "failed"
    /\ UNCHANGED <<inputRecords, spotifyIds, mainError, outputRecords, written,
                   client, authPc, calls, tasks, dictVars, budget>>

OpsCalled == Len(tasks["artists"]) + Len(tasks["albums"])

\* getArtists(value) or getLatestAlbum(value) is called directly on the client.
ClientCall(stage, value) ==
    /\ mainPc = "none"
    /\ calls[stage].status = "unused"
    /\ OpsCalled < MaxOps
    /\ \A s \in Stages : \A k \in 1..Len(tasks[s]) :
          tasks[s][k].pc \in {"fulfilled", "rejected"}
    /\ tasks' = [tasks EXCEPT ![stage] =
                    Append(@, Invoke(NewTask(stage, value, OpsCalled), 0))]
    /\ UNCHANGED <<mainVars, client, authPc, calls, dictVars, budget>>

\* chunkRequests(inputArray, requestFn, concurrentRequests) is called on its
\* own, on an authenticated client.
ChunkRequests(stage, requestFn, inputArray, concurrentRequests) ==
    /\ mainPc = "none"
    /\ calls[stage].status = "unused"
    /\ tasks[stage] = <<>>
    /\ LET r  == RunLoop(stage, NewCall(requestFn, inputArray, concurrentRequests),
                         <<>>)
       IN  /\ calls' = [calls EXCEPT ![stage] = r.call]
           /\ tasks' = [tasks EXCEPT ![stage] = r.tasks]
    /\ UNCHANGED <<inputRecords, mainPc, mainError, outputRecords, written,
                   client, authPc, dictVars, budget>>

\* The call with the per-element operation of the earlier main, which returns
\* the artists it fetched.
BatchCall(inputArray, concurrentRequests) ==
    /\ ChunkRequests("artists", "returnArtists", inputArray, concurrentRequests)
    /\ UNCHANGED spotifyIds

IdsUpTo(n) == [x \in 1..n |-> x]

\* The artist stage of main for the identifiers 1..n, under a given ceiling.
ArtistStage(n, concurrentRequests) ==
    /\ spotifyIds' = IdsUpTo(n)
    /\ ChunkRequests("artists", "storeArtists",
                     SpotifyIdsInChunksOf50(IdsUpTo(n)), concurrentRequests)

\* The release stage of main for the identifiers 1..n, under a given ceiling.
ReleaseStage(n, concurrentRequests) ==
    /\ spotifyIds' = IdsUpTo(n)
    /\ ChunkRequests("albums", "storeLatestAlbum", IdsUpTo(n), concurrentRequests)

\* The two calls main makes together, for the identifiers 1..n, each under a
\* ceiling of its own.
BothStages(n, artistCeiling, albumCeiling) ==
    /\ mainPc = "none"
    /\ \A s \in Stages : calls[s].status = "unused" /\ tasks[s] = <<>>
    /\ spotifyIds' = IdsUpTo(n)
    /\ LET a == RunLoop("artists",
                        NewCall("storeArtists", SpotifyIdsInChunksOf50(IdsUpTo(n)),
                                artistCeiling), <<>>)
           b == RunLoop("albums",
                        NewCall("storeLatestAlbum", IdsUpTo(n), albumCeiling), <<>>)
       IN  /\ calls' = [artists |-> a.call, albums |-> b.call]
           /\ tasks' = [artists |-> a.tasks, albums |-> b.tasks]
    /\ UNCHANGED <<inputRecords, mainPc, mainError, outputRecords, written,
                   client, authPc, dictVars, budget>>

(***************************************************************************)
(* Specifications                                                          *)
(***************************************************************************)
RECURSIVE SeqsUpTo(_, _)
\* The sequences over S of length at most n.
SeqsUpTo(S, n) ==
    IF n = 0 THEN {<<>>}
    ELSE LET shorter == SeqsUpTo(S, n - 1)
         IN  shorter \cup {Append(q, x) : q \in shorter, x \in S}

InitCommon ==
    /\ spotifyIds = <<>>
    /\ mainError = NoError
    /\ calls = [s \in Stages |-> NoCall]
    /\ tasks = [s \in Stages |-> <<>>]
    /\ spotifyIdToArtistObjectDict = <<>>
    /\ artistIdToLatestAlbumDict = <<>>
    /\ outputRecords = <<>>
    /\ written = Undefined

\* A run of main.
RecordIds == {0, 1, 2, 3}

\* The identifiers A, B, A, C of the end-to-end scenario.
EndToEndInput == <<1, 2, 1, 3>>

Init ==
    /\ InitCommon
    /\ inputRecords \in SeqsUpTo(RecordIds, MaxInput) \cup {EndToEndInput}
    /\ mainPc = "start"
    /\ client = "unset"
    /\ authPc = "none"
    /\ budget = MaxRunFaults

Next ==
    \/ MainStart
    \/ AuthOk
    \/ AuthFail
    \/ \E s \in Stages : \E k \in 1..Len(tasks[s]) : \E o \in Outcomes : Respond(s, k, o)
    \/ \E s \in Stages : \E k \in 1..Len(tasks[s]) : TimerFire(s, k)
    \/ FileWritten

Spec == Init /\ [][Next]_vars

\* Requests made directly on a client, before and after authenticate.
DirectArguments(stage) == IF stage = "artists" THEN {<<2, 3>>} ELSE {1}

InitClient ==
    /\ InitCommon
    /\ inputRecords = <<>>
    /\ mainPc = "none"
    /\ client = "unset"
    /\ authPc = "none"
    /\ budget = MAX_RETRIES + 2

NextClient ==
    \/ Authenticate
    \/ AuthOk
    \/ AuthFail
    \/ \E s \in Stages : \E v \in DirectArguments(s) : ClientCall(s, v)
    \/ \E s \in Stages : \E k \in 1..Len(tasks[s]) : \E o \in Outcomes : Respond(s, k, o)
    \/ \E s \in Stages : \E k \in 1..Len(tasks[s]) : TimerFire(s, k)

SpecClient == InitClient /\ [][NextClient]_vars

\* One chunkRequests call on an authenticated client, its per-element
\* operation returning the artists of a list of identifiers.
BatchElements == {<<1>>, <<2, 3>>}

InitBatch ==
    /\ InitCommon
    /\ inputRecords = <<>>
    /\ mainPc = "none"
    /\ client = "ready"
    /\ authPc = "ok"
    /\ budget = MaxFaults

NextBatch ==
    \/ \E input \in SeqsUpTo(BatchElements, MaxLen) : \E c \in 1..MaxConc :
          BatchCall(input, c)
    \/ \E k \in 1..Len(tasks["artists"]) : \E o \in Outcomes : Respond("artists", k, o)
    \/ \E k \in 1..Len(tasks["artists"]) : TimerFire("artists", k)

SpecBatch == InitBatch /\ [][NextBatch]_vars

\* The artist stage of main taken alone, without rate limiting: the
\* identifiers 1..n in requests of ArtistsPerRequest, scheduled under a ceiling.
InitChunk ==
    /\ InitCommon
    /\ inputRecords = <<>>
    /\ mainPc = "none"
    /\ client = "ready"
    /\ authPc = "ok"
    /\ budget = 0

Ceilings == (1..MaxConc) \cup {DefaultConcurrentRequests}

NextChunk ==
    \/ \E n \in 0..MaxIds : \E c \in Ceilings : ArtistStage(n, c)
    \/ \E k \in 1..Len(tasks["artists"]) : \E o \in Outcomes : Respond("artists", k, o)

SpecChunk == InitChunk /\ [][NextChunk]_vars

\* One chunkRequests call for two elements, rate limited often enough for one
\* of them to use every retry it has while the other is rate limited too.
PairInput == <<<<1>>, <<2, 3>>>>

InitPair ==
    /\ InitCommon
    /\ inputRecords = <<>>
    /\ mainPc = "none"
    /\ client = "ready"
    /\ authPc = "ok"
    /\ budget = MAX_RETRIES + MaxFaults

NextPair ==
    \/ \E c \in 1..MaxConc : BatchCall(PairInput, c)
    \/ \E k \in 1..Len(tasks["artists"]) : \E o \in Outcomes : Respond("artists", k, o)
    \/ \E k \in 1..Len(tasks["artists"]) : TimerFire("artists", k)

SpecPair == InitPair /\ [][NextPair]_vars

\* A run of main for one identifier more than the default ceiling, so that
\* the release stage has a second group; the upstream answers a release
\* request with success, and an artist request with success or with a 500.
RunInput == IdsUpTo(DefaultConcurrentRequests + 1)

RunOutcomes(stage) ==
    {o \in Outcomes : o.kind = "ok" \/ (stage = "artists" /\ o.status = 500)}

InitRun ==
    /\ InitCommon
    /\ inputRecords = RunInput
    /\ mainPc = "start"
    /\ client = "unset"
    /\ authPc = "none"
    /\ budget = MaxRunFaults

NextRun ==
    \/ MainStart
    \/ AuthOk
    \/ \E s \in Stages : \E k \in 1..Len(tasks[s]) : \E o \in RunOutcomes(s) : Respond(s, k, o)
    \/ FileWritten

SpecRun == InitRun /\ [][NextRun]_vars

\* Either a run of main for one input record, or one chunkRequests call for
\* two elements on an authenticated client, in two groups or in one.  The upstream may rate limit every
\* attempt of every operation; every request is answered in the end, every
\* timer fires in the end, and main is not held up.
LiveInputs == {<<0>>, <<1>>, <<3>>}

LiveOps == 1..Len(PairInput)

\* What the upstream answers there: success, a 500, or a 429 with Retry-After: 0.
LiveOutcomes ==
    {o \in Outcomes : o.kind = "ok" \/ o.status = 500 \/ o.retryAfter = Just(<<"0">>)}

InitLive ==
    /\ InitCommon
    /\ budget = Len(PairInput) * (MAX_RETRIES + 1)
    /\ \/ /\ inputRecords \in LiveInputs
          /\ mainPc = "start"
          /\ client = "unset"
          /\ authPc = "none"
       \/ /\ inputRecords = <<>>
          /\ mainPc = "none"
          /\ client = "ready"
          /\ authPc = "ok"

NextLive ==
    \/ MainStart
    \/ AuthOk
    \/ AuthFail
    \/ \E c \in {1, DefaultConcurrentRequests} : BatchCall(PairInput, c)
    \/ \E s \in Stages : \E k \in LiveOps : \E o \in LiveOutcomes : Respond(s, k, o)
    \/ \E s \in Stages : \E k \in LiveOps : TimerFire(s, k)
    \/ FileWritten

\* What the run does by itself, the call of chunkRequests apart.
ProgressLive ==
    \/ MainStart
    \/ AuthOk
    \/ AuthFail
    \/ \E s \in Stages : \E k \in LiveOps : \E o \in LiveOutcomes : Respond(s, k, o)
    \/ \E s \in Stages : \E k \in LiveOps : TimerFire(s, k)
    \/ FileWritten

\* While a request is unanswered, a timer is running or main can go on, one
\* of them does: this holds when every request is answered and every timer
\* fires in the end, and asks no more than that.
FairLive == WF_vars(ProgressLive)

SpecLive == InitLive /\ [][NextLive]_vars /\ FairLive

\* The release stage of main taken alone, its requests rate limited or failed.
InitStore ==
    /\ InitCommon
    /\ inputRecords = <<>>
    /\ mainPc = "none"
    /\ client = "ready"
    /\ authPc = "ok"
    /\ budget = MaxFaults

NextStore ==
    \/ \E n \in 0..MaxLen : \E c \in 1..MaxConc : ReleaseStage(n, c)
    \/ \E k \in 1..Len(tasks["albums"]) : \E o \in Outcomes : Respond("albums", k, o)
    \/ \E k \in 1..Len(tasks["albums"]) : TimerFire("albums", k)

SpecStore == InitStore /\ [][NextStore]_vars

\* The two stages side by side: either a run of main for one identifier more
\* than the default ceiling, or the two calls of main made under small
\* ceilings for one identifier more than an artist request holds, so that
\* each stage can fill its ceiling.
InitTwo ==
    /\ InitCommon
    /\ budget = MaxRunFaults
    /\ \/ /\ inputRecords = RunInput
          /\ mainPc = "start"
          /\ client = "unset"
          /\ authPc = "none"
       \/ /\ inputRecords = <<>>
          /\ mainPc = "none"
          /\ client = "ready"
          /\ authPc = "ok"

NextTwo ==
    \/ MainStart
    \/ AuthOk
    \/ \E a \in 1..MaxConc : \E b \in 1..MaxConc : BothStages(ArtistsPerRequest + 1, a, b)
    \/ \E s \in Stages : \E k \in 1..Len(tasks[s]) : \E o \in RunOutcomes(s) : Respond(s, k, o)
    \/ FileWritten

SpecTwo == InitTwo /\ [][NextTwo]_vars

(***************************************************************************)
(* Properties                                                              *)
(***************************************************************************)
Started == UNION {{<<s, k>> : k \in 1..Len(tasks[s])} : s \in Stages}
TaskAt(id) == tasks[id[1]][id[2]]

IsNotAuthenticated(error) == ~error.hasResponse /\ error.message = "Not authenticated"
Is429(error) == error.hasResponse /\ error.status = TOO_MANY_REQUESTS

\* C3: an operation whose every attempt was answered 429 is invoked exactly
\* MAX_RETRIES + 1 times, after MAX_RETRIES retries, and is then rejected with
\* the last 429 error: while every answer so far is a 429 and retries remain it
\* waits for the next attempt, it is given up only after the attempt number
\* MAX_RETRIES + 1, and no operation is ever invoked more often than that.
C3_RateLimitedForever ==
    \A id \in Started :
        LET t == TaskAt(id)
        IN  /\ t.invocations <= MAX_RETRIES + 1
            /\ t.previousRetries <= MAX_RETRIES
            /\ (t.gets > 0 /\ t.answers429 = t.gets) =>
                  /\ t.pc \in {"waiting", "rejected"}
                  /\ t.pc = "waiting" <=> t.answers429 <= MAX_RETRIES
                  /\ t.pc = "rejected" =>
                        /\ t.invocations = MAX_RETRIES + 1
                        /\ t.previousRetries = MAX_RETRIES
                        /\ t.delays = MAX_RETRIES
                        /\ Is429(t.error)
                        /\ t.error = t.lastError
            /\ (t.pc = "rejected" /\ Is429(t.error)) => t.answers429 = MAX_RETRIES + 1

C3_Witness ==
    \E id \in Started :
        /\ TaskAt(id).pc = "rejected"
        /\ Is429(TaskAt(id).error)
        /\ TaskAt(id).error.retryAfter = Just(<<"0">>)
        /\ TaskAt(id).invocations = MAX_RETRIES + 1
        /\ TaskAt(id).answers429 = TaskAt(id).gets

\* C4: an operation answered 429 k times and then with success returns the
\* success result after exactly k delays, one between each 429 and the next
\* attempt, its retry count having reached k (a Retry-After of 1 makes a delay
\* of 1000 ms); the count is the operation's own, so a later call starts at 0.
C4_RetriesThenSuccess ==
    \A id \in Started :
        LET t == TaskAt(id)
        IN  /\ t.pc = "fulfilled" =>
                  /\ t.result = MethodResult(t.stage, t.value)
                  /\ t.delays = t.answers429
                  /\ t.previousRetries = t.answers429
                  /\ t.invocations = t.answers429 + 1
                  /\ t.gets = t.invocations
            /\ t.pc = "inflight" =>
                  /\ t.previousRetries = t.answers429
                  /\ t.delays = t.answers429
                  /\ t.invocations = t.delays + 1
            /\ t.pc = "waiting" =>
                  /\ Is429(t.lastError)
                  /\ t.delays = t.answers429
                  /\ t.invocations = t.delays
                  /\ t.previousRetries = t.answers429 - 1
                  /\ t.lastError.retryAfter = Just(<<"1">>) => t.timerMs = 1000

C4_Witness ==
    /\ Len(tasks["albums"]) = 1
    /\ Len(tasks["artists"]) = 1
    /\ tasks["albums"][1].index = 0
    /\ tasks["albums"][1].pc = "fulfilled"
    /\ tasks["albums"][1].answers429 = 2
    /\ tasks["albums"][1].delays = 2
    /\ tasks["albums"][1].previousRetries = 2
    /\ tasks["albums"][1].result = Just(SimplifiedAlbumObject(1))
    /\ tasks["artists"][1].index = 1
    /\ tasks["artists"][1].pc = "inflight"
    /\ tasks["artists"][1].previousRetries = 0

\* C5: an operation that fails with an error that is not a 429 response (an
\* error without a response included), or with a 429 when MAX_RETRIES retries
\* were made, is rejected with that very error, without a delay and without
\* another invocation.
C5_OtherErrorsPropagate ==
    \A id \in Started :
        LET t == TaskAt(id)
        IN  /\ (t.lastError # NoError /\
                  (~Is429(t.lastError) \/ t.previousRetries >= MAX_RETRIES)) =>
                  /\ t.pc = "rejected"
                  /\ t.error = t.lastError
                  /\ t.timerMs = 0
                  /\ t.delays = t.invocations - 1
                  /\ t.lastError.attempt = t.invocations
            /\ t.pc = "rejected" => t.error = t.lastError /\ t.error # NoError

C5_Witness ==
    \E a \in Started : \E b \in Started :
        /\ TaskAt(a).pc = "rejected"
        /\ TaskAt(a).error.message = "Network Error"
        /\ ~TaskAt(a).error.hasResponse
        /\ TaskAt(b).pc = "rejected"
        /\ Is429(TaskAt(b).error)
        /\ TaskAt(b).previousRetries = MAX_RETRIES

\* C10: a request made while this.client is unset is rejected with the
\* not-authenticated error, sends no GET and is not retried; this.client is
\* set exactly when authenticate has succeeded, and a request made from then
\* on sends its GET and is never rejected with that error.
C10_NotAuthenticated ==
    /\ client = "ready" <=> authPc = "ok"
    /\ \A id \in Started :
          LET t == TaskAt(id)
          IN  /\ t.clientAtCall = "unset" =>
                    /\ t.pc = "rejected"
                    /\ IsNotAuthenticated(t.error)
                    /\ t.gets = 0
                    /\ t.invocations = 1
                    /\ t.delays = 0
              /\ t.clientAtCall = "ready" =>
                    /\ ~IsNotAuthenticated(t.error)
                    /\ t.gets = t.invocations
                    /\ t.gets >= 1

C10_Witness ==
    \E a \in Started : \E b \in Started :
        /\ TaskAt(a).clientAtCall = "unset"
        /\ TaskAt(a).pc = "rejected"
        /\ IsNotAuthenticated(TaskAt(a).error)
        /\ TaskAt(a).index < TaskAt(b).index
        /\ TaskAt(b).clientAtCall = "ready"
        /\ TaskAt(b).pc = "fulfilled"

Pending(stage) == {k \in 1..Len(tasks[stage]) : tasks[stage][k].pc \in {"inflight", "waiting"}}
Rejected(stage) == {k \in 1..Len(tasks[stage]) : tasks[stage][k].pc = "rejected"}

\* The group (0-based) of the element at position k (1-based) of a call.
GroupOf(c, k) == (k - 1) \div c.concurrentRequests

\* C1: a chunkRequests call that succeeds returns as many results as it was
\* given inputs, the i-th being what the operation returned for the i-th input,
\* whatever the order in which the operations of a group completed.
C1_ResultsInInputOrder ==
    \A s \in Stages :
        LET c == calls[s]
        IN  c.status = "resolved" =>
                /\ Len(c.returned) = Len(c.inputArray)
                /\ \A i \in 1..Len(c.inputArray) :
                      c.returned[i] =
                          RequestFnResult(c.requestFn, MethodResult(s, c.inputArray[i]))

C1_Witness ==
    LET c == calls["artists"]
    IN  /\ c.status = "resolved"
        /\ c.concurrentRequests = 2
        /\ c.inputArray = <<<<2, 3>>, <<1>>, <<2, 3>>>>
        /\ c.returned = <<<<ArtistObject(2)>>, <<ArtistObject(1)>>, <<ArtistObject(2)>>>>
        /\ tasks["artists"][1].answers429 = 1
        /\ tasks["artists"][2].answers429 = 0

\* C2: at every moment of a chunkRequests call, the operations started and not
\* yet settled, those waiting out a rate limit included, are at most
\* concurrentRequests.
C2_AtMostCeilingPending ==
    \A s \in Stages :
        calls[s].status # "unused" =>
            Cardinality(Pending(s)) <= calls[s].concurrentRequests

C2_Witness ==
    LET c == calls["artists"]
    IN  /\ c.status = "running"
        /\ c.concurrentRequests = 2
        /\ Len(c.inputArray) = 3
        /\ Cardinality(Pending("artists")) = 2
        /\ \E k \in Pending("artists") : tasks["artists"][k].pc = "waiting"
        /\ \E k \in Pending("artists") : tasks["artists"][k].pc = "inflight"

\* C6: when an element of group k of a chunkRequests call has failed, its own
\* retries done, the call has failed in group k with the error of an element of
\* that group (of that element when it is the only one to fail), and no element
\* of a later group is started.
C6_FailFast ==
    \A s \in Stages :
        LET c == calls[s]
        IN  (c.status # "unused" /\ Rejected(s) # {}) =>
                /\ c.status = "rejected"
                /\ \A k \in Rejected(s) : GroupOf(c, k) = c.i
                /\ \E k \in Rejected(s) : c.error = tasks[s][k].error
                /\ Len(tasks[s]) = Min((c.i + 1) * c.concurrentRequests, Len(c.inputArray))
                /\ c.returned = <<>>

C6_Witness ==
    LET c == calls["artists"]
    IN  /\ c.status = "rejected"
        /\ c.concurrentRequests = 1
        /\ Len(c.inputArray) = 3
        /\ c.i = 1
        /\ Len(tasks["artists"]) = 2
        /\ tasks["artists"][2].pc = "rejected"
        /\ tasks["artists"][2].answers429 = 1
        /\ c.error = tasks["artists"][2].error
        /\ c.error.status = 500

\* The records hold one for identifier id that carries this artist.
WrittenArtist(records, id, artist) ==
    \E r \in 1..Len(records) :
        /\ records[r].spotifyId = Just(id)
        /\ records[r].artistName = Just(artist.name)
        /\ records[r].popularity = Just(artist.popularity)
        /\ records[r].followers = Just(artist.followers)

\* The records hold one for identifier id that carries this album.
WrittenAlbum(records, id, album) ==
    \E r \in 1..Len(records) :
        /\ records[r].spotifyId = Just(id)
        /\ records[r].latestAlbumName = Just(album.name)
        /\ records[r].latestAlbumReleaseDate = Just(album.release_date)

\* C7: when a fetch fails after authentication, main still writes the output,
\* and what it writes holds the artist and release data that the two
\* dictionaries held when it failed.
C7_PartialOutputWritten ==
    [][(mainPc = "fetching" /\ mainPc' = "writing" /\ mainError' # NoError) =>
          /\ written' # Undefined
          /\ \A id \in DOMAIN spotifyIdToArtistObjectDict' :
                WrittenArtist(written'[1], id, spotifyIdToArtistObjectDict'[id])
          /\ \A id \in DOMAIN artistIdToLatestAlbumDict' :
                artistIdToLatestAlbumDict'[id] # Undefined =>
                    WrittenAlbum(written'[1], id, artistIdToLatestAlbumDict'[id][1])]_vars

Occurrences(array, v) == Cardinality({i \in 1..Len(array) : array[i] = v})
FirstIndex(array, v) == CHOOSE i \in 1..Len(array) :
                            array[i] = v /\ \A h \in 1..(i - 1) : array[h] # v

\* GETs sent so far for identifier id by the operations of a stage.
RECURSIVE SumGets(_, _)
SumGets(ts, ks) ==
    IF ks = {} THEN 0
    ELSE LET k == CHOOSE x \in ks : TRUE IN ts[k].gets + SumGets(ts, ks \ {k})

AlbumGets(id) ==
    SumGets(tasks["albums"], {k \in 1..Len(tasks["albums"]) : tasks["albums"][k].value = id})
ArtistGets(id) ==
    SumGets(tasks["artists"],
            {k \in 1..Len(tasks["artists"]) : Includes(tasks["artists"][k].value, id)})

NoRetries == \A id \in Started : TaskAt(id).answers429 = 0

\* C8: the identifiers main fetches are the distinct identifiers of the input,
\* each once, in the order of their first occurrence; both stages are given
\* exactly that list, so that, retries apart, no identifier is requested twice
\* from either endpoint.
C8_Deduplicated ==
    mainPc # "start" =>
        /\ \A id \in RecordIds \ {0} :
              Occurrences(spotifyIds, id) = IF Includes(inputRecords, id) THEN 1 ELSE 0
        /\ \A i \in 1..Len(spotifyIds) : spotifyIds[i] # 0
        /\ \A i \in 1..Len(spotifyIds) : \A j \in 1..Len(spotifyIds) :
              i < j => FirstIndex(inputRecords, spotifyIds[i])
                         < FirstIndex(inputRecords, spotifyIds[j])
        /\ \A s \in Stages : calls[s].status # "unused" =>
              /\ calls["albums"].inputArray = spotifyIds
              /\ Flatten(calls["artists"].inputArray) = spotifyIds
        /\ NoRetries => \A id \in RecordIds \ {0} :
              AlbumGets(id) <= 1 /\ ArtistGets(id) <= 1

C8_Witness ==
    /\ inputRecords = EndToEndInput
    /\ spotifyIds = <<1, 2, 3>>
    /\ mainPc = "done"
    /\ NoRetries
    /\ \A id \in {1, 2, 3} : AlbumGets(id) = 1 /\ ArtistGets(id) = 1

\* C9: without rate limiting, the artist stage for n distinct identifiers sends
\* exactly ceil(n / 50) requests, the k-th for the k-th run of 50 consecutive
\* identifiers, the last run shorter (50, 50 and 20 for 120 identifiers),
\* whatever the concurrency ceiling.
C9_ArtistRequests ==
    LET c == calls["artists"]
        n == Len(spotifyIds)
        ts == tasks["artists"]
    IN  (c.status = "resolved" /\ NoRetries) =>
            /\ ArtistsPerRequest * (Len(ts) - 1) < n \/ (n = 0 /\ Len(ts) = 0)
            /\ n <= ArtistsPerRequest * Len(ts)
            /\ SumGets(ts, 1..Len(ts)) = Len(ts)
            /\ \A k \in 1..Len(ts) :
                  /\ ts[k].gets = 1
                  /\ ts[k].value =
                        [x \in 1..(IF k < Len(ts) THEN ArtistsPerRequest
                                   ELSE n - ArtistsPerRequest * (k - 1)) |->
                            spotifyIds[ArtistsPerRequest * (k - 1) + x]]
            /\ n = 120 => [k \in 1..Len(ts) |-> Len(ts[k].value)] = <<50, 50, 20>>

C9_Witness ==
    /\ calls["artists"].status = "resolved"
    /\ calls["artists"].concurrentRequests = 2
    /\ Len(spotifyIds) = 120
    /\ Len(tasks["artists"]) = 3
    /\ Len(tasks["artists"][3].value) = 20
    /\ NoRetries

\* C11: the retry count of an operation is its own: at every moment, under
\* every interleaving of the elements of a group, it is the number of 429
\* answers that operation itself has had retried, whatever the other
\* operations received; an operation answered 429 waits and retries as long as
\* it has itself received at most MAX_RETRIES of them, and is given up with a
\* 429 only on its own answer number MAX_RETRIES + 1.
C11_CountersAreIndependent ==
    \A id \in Started :
        LET t == TaskAt(id)
        IN  /\ t.previousRetries =
                  t.answers429 - (IF Is429(t.lastError) THEN 1 ELSE 0)
            /\ (Is429(t.lastError) /\ t.answers429 <= MAX_RETRIES) => t.pc = "waiting"
            /\ (t.pc = "rejected" /\ Is429(t.error)) => t.answers429 = MAX_RETRIES + 1

C11_Witness ==
    /\ calls["artists"].concurrentRequests = 2
    /\ Len(tasks["artists"]) = 2
    /\ tasks["artists"][1].pc = "inflight"
    /\ tasks["artists"][1].answers429 = 2
    /\ tasks["artists"][1].previousRetries = 2
    /\ tasks["artists"][2].pc = "fulfilled"
    /\ tasks["artists"][2].answers429 = MAX_RETRIES
    /\ tasks["artists"][2].previousRetries = MAX_RETRIES

\* The records of a list that are for identifier id.
RecordsOf(records, id) == {r \in 1..Len(records) : records[r].spotifyId = Just(id)}

HasArtistFields(record, id) ==
    /\ record.artistName = Just(ArtistObject(id).name)
    /\ record.popularity = Just(ArtistObject(id).popularity)
    /\ record.followers = Just(ArtistObject(id).followers)

NoArtistFields(record) ==
    /\ record.artistName = Undefined
    /\ record.popularity = Undefined
    /\ record.followers = Undefined

HasReleaseFields(record, id) ==
    /\ record.latestAlbumName = Just(SimplifiedAlbumObject(id).name)
    /\ record.latestAlbumReleaseDate = Just(SimplifiedAlbumObject(id).release_date)

NoReleaseFields(record) ==
    /\ record.latestAlbumName = Undefined
    /\ record.latestAlbumReleaseDate = Undefined

\* A run that ended without an error has written its output.
WrittenOnSuccess == written # Undefined /\ mainError = NoError

\* C12, as stated: in the output of the run for A, B, A, C (1, 2, 1, 3) every
\* one of the three identifiers has an entry and none has more than one; the
\* entry of C has no artist fields, those of B and C no release fields, and
\* that of A carries its release.
C12_OneEntryPerIdentifier ==
    (WrittenOnSuccess /\ inputRecords = EndToEndInput) =>
        /\ \A id \in {1, 2, 3} : Cardinality(RecordsOf(written[1], id)) = 1
        /\ \A r \in RecordsOf(written[1], 3) : NoArtistFields(written[1][r])
        /\ \A r \in RecordsOf(written[1], 2) \cup RecordsOf(written[1], 3) :
              NoReleaseFields(written[1][r])
        /\ \A r \in RecordsOf(written[1], 1) : HasReleaseFields(written[1][r], 1)

\* C12, amended: the output of a run that succeeds holds one record per input
\* record, in input order, so an identifier has as many records as the input
\* names it (two for A in A, B, A, C) and every distinct identifier has one at
\* least; it is the two dictionaries that hold at most one entry per
\* identifier, the release dictionary one for every distinct identifier and
\* the artist dictionary one for every matched identifier.  Every record of an
\* unmatched identifier has no artist fields, every record of an identifier
\* without a release has no release fields, and the others carry the artist
\* and the release.
C12_OneRecordPerInputRecord ==
    WrittenOnSuccess =>
        /\ Len(written[1]) = Len(inputRecords)
        /\ \A r \in 1..Len(inputRecords) :
              LET id == inputRecords[r]
                  record == written[1][r]
              IN  /\ record.spotifyId = (IF id = 0 THEN Undefined ELSE Just(id))
                  /\ IF id # 0 /\ IsArtist(id) THEN HasArtistFields(record, id)
                     ELSE NoArtistFields(record)
                  /\ IF id # 0 /\ HasRelease(id) THEN HasReleaseFields(record, id)
                     ELSE NoReleaseFields(record)
        /\ \A id \in RecordIds \ {0} :
              /\ Cardinality(RecordsOf(written[1], id)) = Occurrences(inputRecords, id)
              /\ id \in DOMAIN artistIdToLatestAlbumDict <=> Includes(inputRecords, id)
              /\ id \in DOMAIN spotifyIdToArtistObjectDict
                    <=> (Includes(inputRecords, id) /\ IsArtist(id))
        /\ DOMAIN artistIdToLatestAlbumDict \subseteq RecordIds \ {0}
        /\ DOMAIN spotifyIdToArtistObjectDict \subseteq RecordIds \ {0}

C12_Witness ==
    /\ inputRecords = EndToEndInput
    /\ mainPc = "done"
    /\ WrittenOnSuccess
    /\ Len(written[1]) = 4
    /\ RecordsOf(written[1], 1) = {1, 3}
    /\ written[1][1] = written[1][3]
    /\ HasArtistFields(written[1][2], 2) /\ NoReleaseFields(written[1][2])
    /\ NoArtistFields(written[1][4]) /\ NoReleaseFields(written[1][4])
    /\ DOMAIN artistIdToLatestAlbumDict = {1, 2, 3}
    /\ DOMAIN spotifyIdToArtistObjectDict = {1, 2}

\* C13: the groups of a chunkRequests call do not overlap: when an element of
\* a group has been started, every element of every earlier group has settled
\* with success, those that were rate limited and retried included; so the
\* elements not yet settled all belong to the group the loop is at.
C13_GroupsNeverOverlap ==
    \A s \in Stages :
        LET c == calls[s]
            ts == tasks[s]
        IN  c.status # "unused" =>
                /\ \A k \in 1..Len(ts) : \A h \in 1..Len(ts) :
                      GroupOf(c, h) < GroupOf(c, k) => ts[h].pc = "fulfilled"
                /\ \A k \in Pending(s) : GroupOf(c, k) = c.i
                /\ \A k \in 1..Len(ts) : GroupOf(c, k) <= c.i

C13_Witness ==
    LET c == calls["artists"]
        ts == tasks["artists"]
    IN  /\ c.concurrentRequests = 2
        /\ Len(c.inputArray) = 3
        /\ Len(ts) = 3
        /\ ts[1].pc = "fulfilled"
        /\ ts[1].answers429 = 2
        /\ ts[2].pc = "fulfilled"
        /\ ts[2].answers429 = 0
        /\ ts[3].pc = "inflight"

\* The Retry-After header of a 429 answer is missing or does not start with a digit.
UnparseableRetryAfter(error) == Is429(error) /\ ParseInt(error.retryAfter) = NaN

\* C14: an attempt answered 429 with a Retry-After header that is missing or
\* not a number fails the operation with that error: no timer is set for it
\* and the operation is not invoked again.
C14_UnparseableHeaderIsFatal ==
    \A id \in Started :
        LET t == TaskAt(id)
        IN  UnparseableRetryAfter(t.lastError) =>
                /\ t.pc = "rejected"
                /\ t.error = t.lastError
                /\ t.timerMs = 0

\* C15: once a request has failed with an error that is not retried, and the
\* error has reached main, no element of either stage that was not yet started
\* is started.
C15_NothingStartedAfterFailure ==
    [][mainError # NoError =>
          \A s \in Stages : Len(tasks'[s]) = Len(tasks[s])]_vars

\* The keys the operation t writes when its request succeeds.
WriteKeys(t) ==
    IF t.stage = "artists"
    THEN {ArtistsOf(t.value)[i].id : i \in 1..Len(ArtistsOf(t.value))}
    ELSE {t.value}

DictOf(stage) ==
    IF stage = "artists" THEN spotifyIdToArtistObjectDict ELSE artistIdToLatestAlbumDict

\* The operations whose request succeeds in this step.
Fulfilling(id) == TaskAt(id).pc # "fulfilled" /\ tasks'[id[1]][id[2]].pc = "fulfilled"

\* Every key is written at most once: an operation that succeeds writes keys
\* that were not in its dictionary, and a key once written keeps its value.
KeysWrittenOnce ==
    /\ \A id \in Started :
          Fulfilling(id) => WriteKeys(TaskAt(id)) \cap DOMAIN DictOf(id[1]) = {}
    /\ \A s \in Stages : \A key \in DOMAIN DictOf(s) :
          key \in DOMAIN DictOf(s)' /\ DictOf(s)'[key] = DictOf(s)[key]

\* Two operations of a stage that are under way together write different keys.
WritersDisjoint ==
    \A s \in Stages : \A k \in Pending(s) : \A h \in Pending(s) :
        k # h => WriteKeys(tasks[s][k]) \cap WriteKeys(tasks[s][h]) = {}

\* No dictionary is written once main has left the fetch for the output.
ReadOnlyInOutputPhase ==
    mainPc \in {"writing", "done", "failed"} => UNCHANGED dictVars

\* C16: in a run of main every key of the two dictionaries is written at most
\* once, operations under way together never write the same key, and no
\* dictionary is written once the output phase has begun.
C16_WriteOnceThenReadOnly ==
    [][KeysWrittenOnce /\ WritersDisjoint /\ ReadOnlyInOutputPhase]_vars

\* C17: the index given to the operation of an element is the element's
\* position (from 0) in the input of the chunkRequests call, whatever the
\* ceiling; a call that succeeds has given the indices 0..n-1, each once, the
\* i-th to the i-th input.
C17_IndexIsInputPosition ==
    \A s \in Stages :
        LET c == calls[s]
            ts == tasks[s]
        IN  c.status # "unused" =>
                /\ \A k \in 1..Len(ts) :
                      /\ ts[k].index = k - 1
                      /\ ts[k].index = GroupOf(c, k) * c.concurrentRequests
                                          + ((k - 1) % c.concurrentRequests)
                      /\ ts[k].value = c.inputArray[ts[k].index + 1]
                /\ c.status = "resolved" =>
                      /\ Len(ts) = Len(c.inputArray)
                      /\ {ts[k].index : k \in 1..Len(ts)} = 0..(Len(c.inputArray) - 1)

C17_Witness ==
    LET c == calls["artists"]
        ts == tasks["artists"]
    IN  /\ c.status = "resolved"
        /\ c.concurrentRequests = 2
        /\ Len(c.inputArray) = 3
        /\ [k \in 1..Len(ts) |-> ts[k].index] = <<0, 1, 2>>
        /\ ts[2].answers429 = 1

Settled(s, k) == k <= Len(tasks[s]) /\ tasks[s][k].pc \in {"fulfilled", "rejected"}

\* C18: no operation sends more than MAX_RETRIES + 1 requests; and when every
\* request is answered and every timer fires, every operation that was started
\* settles, every chunkRequests call that was made resolves or rejects, and a
\* main that has begun to fetch writes its output and ends.
C18_EverythingSettles ==
    /\ [](\A id \in Started : TaskAt(id).gets <= MAX_RETRIES + 1)
    /\ \A s \in Stages : \A k \in LiveOps : (k <= Len(tasks[s])) ~> Settled(s, k)
    /\ \A s \in Stages :
          (calls[s].status = "running") ~> (calls[s].status \in {"resolved", "rejected"})
    /\ (mainPc = "fetching") ~> (written # Undefined /\ mainPc \in {"done", "failed"})

C18_Witness ==
    /\ mainPc = "failed"
    /\ written # Undefined
    /\ tasks["artists"][1].pc = "rejected"
    /\ tasks["artists"][1].gets = MAX_RETRIES + 1
    /\ tasks["albums"][1].pc = "fulfilled"
    /\ tasks["albums"][1].gets = MAX_RETRIES + 1

OkOutcome == [kind |-> "ok", status |-> 200, retryAfter |-> Undefined]

\* C19: after a chunkRequests call has rejected, the other operations it had
\* started are not cancelled: one that awaits its answer can still receive it,
\* one that waits out a rate limit still retries, none ends otherwise than
\* with its own result or its own error, and every one that succeeds, before
\* or after the rejection, has stored its result in the shared dictionary.
C19_OthersNotCancelled ==
    \A s \in Stages :
        LET c == calls[s]
            ts == tasks[s]
        IN  c.status = "rejected" =>
                \A k \in 1..Len(ts) :
                    /\ ts[k].pc \in {"inflight", "waiting", "fulfilled", "rejected"}
                    /\ ts[k].pc = "inflight" => ENABLED Respond(s, k, OkOutcome)
                    /\ ts[k].pc = "waiting" => ENABLED TimerFire(s, k)
                    /\ ts[k].pc = "rejected" =>
                          ts[k].error = ts[k].lastError /\ ts[k].error # NoError
                    /\ ts[k].pc = "fulfilled" =>
                          /\ ts[k].value \in DOMAIN DictOf(s)
                          /\ DictOf(s)[ts[k].value] = MethodResult(s, ts[k].value)

\* The second release request fails; the first, rate limited meanwhile, is
\* retried and stores its release after the call has rejected: Promise.all has
\* no value for it.
C19_Witness ==
    LET c == calls["albums"]
        ts == tasks["albums"]
    IN  /\ c.status = "rejected"
        /\ c.concurrentRequests = 2
        /\ Len(ts) = 2
        /\ ts[2].pc = "rejected"
        /\ c.error = ts[2].error
        /\ ts[1].pc = "fulfilled"
        /\ ts[1].answers429 = 1
        /\ c.values[1] = Undefined
        /\ 1 \in DOMAIN artistIdToLatestAlbumDict
        /\ artistIdToLatestAlbumDict[1] = Just(SimplifiedAlbumObject(1))

\* The requests of a stage that the upstream has not answered yet.
InFlight(stage) == {k \in 1..Len(tasks[stage]) : tasks[stage][k].pc = "inflight"}

RequestsInFlight == Cardinality(InFlight("artists")) + Cardinality(InFlight("albums"))

\* C20: while the artist stage and the release stage run side by side, the
\* requests in flight are never more than the two ceilings together (20 for the
\* ceilings of main), each stage keeping to its own.
C20_AtMostBothCeilingsInFlight ==
    (\A s \in Stages : calls[s].status # "unused") =>
        /\ RequestsInFlight
              <= calls["artists"].concurrentRequests + calls["albums"].concurrentRequests
        /\ \A s \in Stages : Cardinality(InFlight(s)) <= calls[s].concurrentRequests
        /\ mainPc # "none" =>
              /\ \A s \in Stages : calls[s].concurrentRequests = DefaultConcurrentRequests
              /\ RequestsInFlight <= 2 * DefaultConcurrentRequests

\* In a run of main, more requests are in flight than one ceiling allows.
C20_Witness ==
    /\ mainPc = "fetching"
    /\ \A s \in Stages : calls[s].concurrentRequests = DefaultConcurrentRequests
    /\ RequestsInFlight > DefaultConcurrentRequests

====
